---- MODULE Spec2Model ----
(***************************************************************************)
(* NeuroFlex dashboard (src/App.tsx, services/geminiService): the metrics  *)
(* simulator, the autoscaling policy, the event log and history buffers,   *)
(* the narration client and the stress injector, as one state machine.     *)
(*                                                                         *)
(* Every timer callback and every UI handler is one atomic action: the     *)
(* JavaScript event loop runs callbacks to completion, and the state       *)
(* updaters a callback enqueues are applied before the next callback.      *)
(*                                                                         *)
(* Numbers of type `number` that carry fractions (cpuLoad, memoryUsage,    *)
(* networkLatency, temperature) are fixed-point integers in units of       *)
(* 1/SCALE.  A call of Math.random() is a draw r in 0..RANDOM_RES-1 that   *)
(* stands for the value r/RANDOM_RES in [0,1).                             *)
(***************************************************************************)
EXTENDS Integers, Sequences, FiniteSets, TLC

\* ---------------------------------------------------------------- constants
\* setInterval period of the simulation effect, in ms
TICK_RATE == 1000
HISTORY_LENGTH == 30
MIN_NODES == 10
MAX_NODES == 100
\* prev.slice(-49) in addLog: the entries kept before the new one is appended
LOG_KEEP == 49
\* fixed-point unit of the fractional metrics (hundredths)
SCALE == 100
\* resolution of a Math.random() draw (thousandths)
RANDOM_RES == 1000
\* thresholds of the autoscaling policy, in percent
CPU_HIGH == 85
CPU_LOW == 40
\* fixed scale-up increment
INCREASE == 5
\* setInterval periods of the auto-scaling and narration effects, in ms
SCALE_RATE == 2000
AI_RATE == 8000
\* stress pulse amount and the slider's maximum
STRESS_AMOUNT == 40
LOAD_MAX == 80

\* ------------------------------------------------------------------- bounds
\* metric samples taken in one behaviour of Spec
MaxTicks == 1
\* log entries appended in one behaviour of Spec
MaxLogs == 2
\* narration requests in flight at once
MaxPending == 1
\* stress-compensation timeouts pending at once
MaxStress == 1
\* metric samples and log entries in one behaviour of SpecPolicy
MaxPolicyTicks == 3
MaxPolicyLogs == 17
\* metric samples and log entries in one behaviour of SpecBuffers: past the
\* capacities of the history buffer and of the event log
MaxBufferTicks == 32
MaxBufferLogs == 52
\* SpecNarrator: length of a response text, log entries, requests in flight
MaxTextLen == 3
MaxNarratorLogs == 2
MaxNarratorPending == 2
\* SpecMetrics: metric samples taken after the drawn previous sample
MaxMetricsTicks == 1
\* SpecStress: compensation timeouts pending at once (two make an overlap)
\* and log entries in one behaviour
MaxStressPulses == 2
MaxStressLogs == 6
\* SpecTimed: metric samples, log entries and narration requests in flight
MaxTimedTicks == 8
MaxTimedLogs == 1
MaxTimedPending == 1
\* SpecPulse: log entries in one behaviour (a pulse appends two)
MaxPulseLogs == 4
\* SpecSteady: metric samples and log entries in one behaviour
MaxSteadyTicks == 3
MaxSteadyLogs == 4

VARIABLES
    metrics,        \* useState<SystemMetrics>
    metricsRef,     \* useRef(metrics).current
    networkConfig,  \* useState<NetworkConfig>
    configRef,      \* useRef(networkConfig).current
    logs,           \* useState<LogEntry[]>
    history,        \* useState<{time, cpu, mem}[]>
    autoScale,      \* useState(true)
    artificialLoad, \* useState(0)
    mounted,        \* the App component is mounted
    timers,         \* the setInterval timers that are armed
    stressTimeouts, \* pending setTimeout callbacks of handleStressTest
    pendingAI,      \* aiInterval callbacks suspended at `await analyzeSystem`
    seq,            \* number of log entries appended so far (stands for the random id)
    clock,          \* number of samples taken so far (stands for Date.now())
    lastCallback,   \* the callback or handler that ran last
    due,            \* ms until each setInterval timer fires next (kept by SpecTimed)
    pulseStart,     \* artificialLoad when the pending stress pulse was injected
    trend           \* direction and number of the config changes made on fresh
                    \* samples since artificialLoad last changed

vars == <<metrics, metricsRef, networkConfig, configRef, logs, history,
          autoScale, artificialLoad, mounted, timers, stressTimeouts,
          pendingAI, seq, clock, lastCallback, due, pulseStart, trend>>

\* the variables that only SpecTimed, SpecPulse and SpecSteady follow
aux == <<due, pulseStart, trend>>

\* ------------------------------------------------------------------ helpers
\* no stress pulse is pending
NoPulse == -1
\* no config change yet in the current interval of constant load
NoTrend == [dir |-> "none", run |-> 0]

Min(a, b) == IF a < b THEN a ELSE b
Max(a, b) == IF a > b THEN a ELSE b

\* Array.prototype.slice(-k) for k > 0: the last k elements (all when shorter)
SliceLast(s, k) == IF Len(s) <= k THEN s ELSE SubSeq(s, Len(s) - k + 1, Len(s))

\* one entry too many is kept: prev.slice(-50)
LogAppended_keep50(prev, id, type, message) ==
    SliceLast(prev, LOG_KEEP + 1) \o <<[id |-> id, type |-> type, message |-> message]>>

\* addLog: setLogs(prev => [...prev.slice(-49), {id, timestamp, type, message}])
LogAppended(prev, id, type, message) ==
    SliceLast(prev, LOG_KEEP) \o <<[id |-> id, type |-> type, message |-> message]>>

\* setHistory(h => [...h.slice(-(HISTORY_LENGTH - 1)), {time, cpu, mem}])
HistoryAppended(h, time, cpu, mem) ==
    SliceLast(h, HISTORY_LENGTH - 1) \o <<[time |-> time, cpu |-> cpu, mem |-> mem]>>

\* addLog as a state update; a dropped update when the component is unmounted
addLog(type, message) ==
    /\ logs' = IF mounted THEN LogAppended(logs, seq + 1, type, message) ELSE logs
    /\ seq' = IF mounted THEN seq + 1 ELSE seq

\* ----------------------------------------------------------- metrics simulator
\* baseLoad = 10 + (networkConfig.nodeCount / 2)
BaseLoad(n) == 10 * SCALE + (n * SCALE) \div 2

\* noise = (Math.random() - 0.5) * 10
CpuNoise(r) == ((2 * r - RANDOM_RES) * 10 * SCALE) \div (2 * RANDOM_RES)

\* newCpu = Math.min(100, Math.max(5, baseLoad + artificialLoad + noise))
NewCpu(n, load, r) ==
    Min(100 * SCALE, Max(5 * SCALE, BaseLoad(n) + load * SCALE + CpuNoise(r)))

\* memNoise = (Math.random() - 0.5) * 5
MemNoise(r) == ((2 * r - RANDOM_RES) * 5 * SCALE) \div (2 * RANDOM_RES)

\* the ceiling of 100 is left out
NewMem_noCeiling(prevMem, cpu, r) ==
    Max(10 * SCALE, prevMem + (cpu - prevMem) \div 10 + MemNoise(r))

\* newMem = Math.min(100, Math.max(10, prev.memoryUsage + (newCpu - prev.memoryUsage) * 0.1 + memNoise))
NewMem(prevMem, cpu, r) ==
    Min(100 * SCALE, Max(10 * SCALE, prevMem + (cpu - prevMem) \div 10 + MemNoise(r)))

\* networkLatency: 40 + (newCpu * 0.5) + (Math.random() * 20)
NewLatency(cpu, r) == 40 * SCALE + cpu \div 2 + (r * 20 * SCALE) \div RANDOM_RES

\* temperature: 40 + (newCpu * 0.4)
NewTemperature(cpu) == 40 * SCALE + (cpu * 4) \div 10

\* the setInterval callback of the Simulation Logic effect
MetricsTick(r1, r2, r3) ==
    /\ "metrics" \in timers
    /\ LET newCpu == NewCpu(networkConfig.nodeCount, artificialLoad, r1)
           newMem == NewMem(metrics.memoryUsage, newCpu, r2)
           newMetrics == [cpuLoad |-> newCpu,
                          memoryUsage |-> newMem,
                          networkLatency |-> NewLatency(newCpu, r3),
                          temperature |-> NewTemperature(newCpu)]
       IN /\ metricsRef' = newMetrics
          /\ history' = HistoryAppended(history, clock + 1, newCpu, newMem)
          /\ metrics' = newMetrics
    /\ clock' = clock + 1
    /\ lastCallback' = "metricsTick"
    /\ UNCHANGED <<networkConfig, configRef, logs, autoScale, artificialLoad,
                   mounted, timers, stressTimeouts, pendingAI, seq>>

\* ------------------------------------------------------------ autoscale policy
\* a reduction of a quarter instead of a fifth
Reduction_quarter(n) == (n * 25) \div 100

\* reduction = Math.floor(currentNodes * 0.2)
Reduction(n) == (n * 2) \div 10

\* the target without the clamp to MIN_NODES
ScaleDownTarget_noClamp(n) == n - Reduction(n)

\* target = Math.max(MIN_NODES, currentNodes - reduction)
ScaleDownTarget(n) == Max(MIN_NODES, n - Reduction(n))

\* target = Math.min(MAX_NODES, currentNodes + increase)
ScaleUpTarget(n) == Min(MAX_NODES, n + INCREASE)

\* the threshold taken inclusively
IsHighLoad_inclusive(cpu) == cpu >= CPU_HIGH * SCALE

\* currentCpu > 85
IsHighLoad(cpu) == cpu > CPU_HIGH * SCALE

\* the low band reaches up to 80: a dead zone of 5 points
IsLowLoad_wide(cpu) == cpu < 80 * SCALE

\* else if (currentCpu < 40)
IsLowLoad(cpu) == cpu < CPU_LOW * SCALE

\* next = {...prev, nodeCount: target, complexity: target < 30 ? 'LOW' : 'MEDIUM', status: 'STRAINED'}
ScaledDown(prev, target) ==
    [prev EXCEPT !.nodeCount = target,
                 !.complexity = IF target < 30 THEN "LOW" ELSE "MEDIUM",
                 !.status = "STRAINED"]

\* HIGH from 60 nodes on instead of above 60
ScaledUp_from60(prev, target) ==
    [prev EXCEPT !.nodeCount = target,
                 !.complexity = IF target >= 60 THEN "HIGH" ELSE "MEDIUM",
                 !.status = "OPTIMAL"]

\* next = {...prev, nodeCount: target, complexity: target > 60 ? 'HIGH' : 'MEDIUM', status: 'OPTIMAL'}
ScaledUp(prev, target) ==
    [prev EXCEPT !.nodeCount = target,
                 !.complexity = IF target > 60 THEN "HIGH" ELSE "MEDIUM",
                 !.status = "OPTIMAL"]

\* the change is applied and logged whether or not the target differs
TargetDiffers_always(target, currentNodes) == TRUE

\* if (target !== currentNodes)
TargetDiffers(target, currentNodes) == target # currentNodes

\* `Critical load detected. Reducing active nodes to ${target}.`
ScaleDownMessage(target) ==
    "Critical load detected. Reducing active nodes to " \o ToString(target) \o "."

\* `Available headroom. Expanding neural architecture to ${target} nodes.`
ScaleUpMessage(target) ==
    "Available headroom. Expanding neural architecture to " \o ToString(target) \o " nodes."

\* the setInterval callback of the Auto-Scaling Logic effect
AutoscaleEval ==
    /\ "scale" \in timers
    /\ lastCallback' = "autoscale"
    /\ LET currentCpu == metricsRef.cpuLoad
           currentNodes == configRef.nodeCount
       IN IF IsHighLoad(currentCpu)
          THEN LET target == ScaleDownTarget(currentNodes)
               IN IF TargetDiffers(target, currentNodes)
                  THEN /\ networkConfig' = ScaledDown(networkConfig, target)
                       /\ configRef' = ScaledDown(networkConfig, target)
                       /\ addLog("SYSTEM", ScaleDownMessage(target))
                  ELSE UNCHANGED <<networkConfig, configRef, logs, seq>>
          ELSE IF IsLowLoad(currentCpu)
          THEN LET target == ScaleUpTarget(currentNodes)
               IN IF TargetDiffers(target, currentNodes)
                  THEN /\ networkConfig' = ScaledUp(networkConfig, target)
                       /\ configRef' = ScaledUp(networkConfig, target)
                       /\ addLog("SYSTEM", ScaleUpMessage(target))
                  ELSE UNCHANGED <<networkConfig, configRef, logs, seq>>
          ELSE UNCHANGED <<networkConfig, configRef, logs, seq>>
    /\ UNCHANGED <<metrics, metricsRef, history, autoScale, artificialLoad,
                   mounted, timers, stressTimeouts, pendingAI, clock>>

\* ------------------------------------------------------------ narrator client
\* return value of the catch branch of analyzeSystem
FALLBACK_TEXT == "Telemetry link unstable. Running local heuristics."

\* right operand of `response.text?.trim() || ...`
DEFAULT_TEXT == "System nominal. Awaiting input."

\* the characters String.prototype.trim() strips (those the model draws from)
Whitespace == {" ", "\n", "\t"}

RECURSIVE TrimStart(_)
TrimStart(cs) ==
    IF cs # <<>> /\ Head(cs) \in Whitespace THEN TrimStart(Tail(cs)) ELSE cs

RECURSIVE TrimEnd(_)
TrimEnd(cs) ==
    IF cs # <<>> /\ cs[Len(cs)] \in Whitespace THEN TrimEnd(SubSeq(cs, 1, Len(cs) - 1)) ELSE cs

\* the text is used untrimmed
Trim_none(cs) == cs

\* String.prototype.trim() on a string given as its sequence of characters
Trim(cs) == TrimEnd(TrimStart(cs))

\* the string a sequence of characters spells
RECURSIVE Chars2String(_)
Chars2String(cs) == IF cs = <<>> THEN "" ELSE Head(cs) \o Chars2String(Tail(cs))

\* how a promise settles
Resolved(value) == [settled |-> "resolved", value |-> value]
Rejected == [settled |-> "rejected", value |-> ""]

\* analyzeSystem without its try/catch: the error of the call propagates
analyzeSystem_noCatch(o) ==
    IF o.kind = "throw" THEN Rejected
    ELSE IF o.kind = "undefined" THEN Resolved(DEFAULT_TEXT)
    ELSE LET trimmed == Chars2String(Trim(o.chars))
         IN Resolved(IF trimmed = "" THEN DEFAULT_TEXT ELSE trimmed)

\* analyzeSystem: how the promise it returns settles, for each outcome of
\* ai.models.generateContent.  o.kind is "throw" (the call throws or rejects),
\* "undefined" (response.text is undefined) or "text" (response.text spells o.chars).
analyzeSystem(o) ==
    IF o.kind = "throw" THEN Resolved(FALLBACK_TEXT)
    ELSE IF o.kind = "undefined" THEN Resolved(DEFAULT_TEXT)
    ELSE LET trimmed == Chars2String(Trim(o.chars))
         IN Resolved(IF trimmed = "" THEN DEFAULT_TEXT ELSE trimmed)

\* Math.random() > 0.7
NarrationGate(r) == r * 10 > 7 * RANDOM_RES

\* the callback waits for the answer with the event loop blocked: no timer
\* fires while a request is in flight
NarrationTick_blocking(r) ==
    /\ "ai" \in timers
    /\ pendingAI' = IF NarrationGate(r) THEN pendingAI + 1 ELSE pendingAI
    /\ timers' = IF NarrationGate(r) THEN {} ELSE timers
    /\ lastCallback' = "narrationTick"
    /\ UNCHANGED <<metrics, metricsRef, networkConfig, configRef, logs, history,
                   autoScale, artificialLoad, mounted, stressTimeouts,
                   seq, clock>>

\* the aiInterval callback up to its `await`
NarrationTick(r) ==
    /\ "ai" \in timers
    /\ pendingAI' = IF NarrationGate(r) THEN pendingAI + 1 ELSE pendingAI
    /\ lastCallback' = "narrationTick"
    /\ UNCHANGED <<metrics, metricsRef, networkConfig, configRef, logs, history,
                   autoScale, artificialLoad, mounted, timers, stressTimeouts,
                   seq, clock>>

\* the aiInterval callback from its `await` on: addLog('AI', thought); a
\* rejected promise would end the callback at the await
NarrationResolve(o) ==
    /\ pendingAI > 0
    /\ pendingAI' = pendingAI - 1
    /\ LET thought == analyzeSystem(o)
       IN IF thought.settled = "resolved"
          THEN addLog("AI", thought.value)
          ELSE UNCHANGED <<logs, seq>>
    /\ lastCallback' = "narrationResolve"
    /\ UNCHANGED <<metrics, metricsRef, networkConfig, configRef, history,
                   autoScale, artificialLoad, mounted, timers, stressTimeouts,
                   clock>>

\* ------------------------------------------------------------- stress injector
\* the ceiling of 80 is left out
StressInjected_noClamp(prev) == prev + STRESS_AMOUNT

\* setArtificialLoad(prev => Math.min(prev + 40, 80))
StressInjected(prev) == Min(prev + STRESS_AMOUNT, LOAD_MAX)

\* setArtificialLoad(prev => Math.max(0, prev - 40))
StressReleased(prev) == Max(0, prev - STRESS_AMOUNT)

\* handleStressTest, up to and including setTimeout
StressTest ==
    /\ mounted
    /\ addLog("WARNING", "Injecting artificial stress test load...")
    /\ artificialLoad' = StressInjected(artificialLoad)
    /\ stressTimeouts' = stressTimeouts + 1
    /\ lastCallback' = "stressTest"
    /\ UNCHANGED <<metrics, metricsRef, networkConfig, configRef, history,
                   autoScale, mounted, timers, pendingAI, clock>>

\* the setTimeout callback of handleStressTest; the timeout is never cleared,
\* so it also runs after unmount, where its state updates are dropped
StressRelease ==
    /\ stressTimeouts > 0
    /\ stressTimeouts' = stressTimeouts - 1
    /\ artificialLoad' = IF mounted THEN StressReleased(artificialLoad) ELSE artificialLoad
    /\ addLog("INFO", "Stress test complete. Releasing load.")
    /\ lastCallback' = "stressRelease"
    /\ UNCHANGED <<metrics, metricsRef, networkConfig, configRef, history,
                   autoScale, mounted, timers, pendingAI, clock>>

\* ------------------------------------------------------------------ UI handlers
\* ARTIFICIAL_PRESSURE slider: onChange={(e) => setArtificialLoad(parseInt(e.target.value))}
SetArtificialLoad(v) ==
    /\ mounted
    /\ v \in 0..LOAD_MAX
    /\ artificialLoad' = v
    /\ lastCallback' = "slider"
    /\ UNCHANGED <<metrics, metricsRef, networkConfig, configRef, logs, history,
                   autoScale, mounted, timers, stressTimeouts, pendingAI, seq, clock>>

\* AUTO-SCALING button: setAutoScale(!autoScale); the Auto-Scaling effect
\* (deps [autoScale]) clears scaleInterval and arms a new one only if autoScale
ToggleAutoScale ==
    /\ mounted
    /\ autoScale' = ~autoScale
    /\ timers' = IF autoScale' THEN timers \cup {"scale"} ELSE timers \ {"scale"}
    /\ lastCallback' = "toggle"
    /\ UNCHANGED <<metrics, metricsRef, networkConfig, configRef, logs, history,
                   artificialLoad, mounted, stressTimeouts, pendingAI, seq, clock>>

\* Run Diagnostics button
Diagnostics ==
    /\ mounted
    /\ addLog("INFO", "System diagnostics completed. All metrics within tolerance.")
    /\ lastCallback' = "diagnostics"
    /\ UNCHANGED <<metrics, metricsRef, networkConfig, configRef, history,
                   autoScale, artificialLoad, mounted, timers, stressTimeouts,
                   pendingAI, clock>>

\* unmount: the cleanup of each effect runs (clearInterval of interval,
\* scaleInterval and aiInterval); nothing clears the stress timeouts or
\* abandons the suspended aiInterval callbacks
Unmount ==
    /\ mounted
    /\ mounted' = FALSE
    /\ timers' = {}
    /\ lastCallback' = "unmount"
    /\ UNCHANGED <<metrics, metricsRef, networkConfig, configRef, logs, history,
                   autoScale, artificialLoad, stressTimeouts, pendingAI, seq, clock>>

\* -------------------------------------------------------------------- initial
Init ==
    /\ metrics = [cpuLoad |-> 20 * SCALE, memoryUsage |-> 30 * SCALE,
                  networkLatency |-> 45 * SCALE, temperature |-> 40 * SCALE]
    /\ metricsRef = metrics
    /\ networkConfig = [nodeCount |-> 30, complexity |-> "MEDIUM", status |-> "OPTIMAL"]
    /\ configRef = networkConfig
    /\ logs = <<>>
    /\ history = <<>>
    /\ autoScale = TRUE
    /\ artificialLoad = 0
    /\ mounted = TRUE
    /\ timers = {"metrics", "scale", "ai"}
    /\ stressTimeouts = 0
    /\ pendingAI = 0
    /\ seq = 0
    /\ clock = 0
    /\ lastCallback = "mount"
    /\ due = [metrics |-> TICK_RATE, scale |-> SCALE_RATE, ai |-> AI_RATE]
    /\ pulseStart = NoPulse
    /\ trend = NoTrend

\* ------------------------------------------------------- inputs of Spec
\* Math.random() draws: the least and the greatest
RandomDraws == {0, 999}

\* draws on both sides of the narration gate
GateDraws == {700, 701}

\* slider positions: the ends of the range (a stress pulse gives the middle)
SliderValues == {0, 80}

\* outcomes of ai.models.generateContent
ServiceOutcomes ==
    { [kind |-> "throw", chars |-> <<>>],
      [kind |-> "text", chars |-> <<" ", "o", "k", "\n">>] }

Next ==
    \/ clock < MaxTicks /\ \E r1 \in RandomDraws, r2 \in {500}, r3 \in {0} : MetricsTick(r1, r2, r3) /\ UNCHANGED aux
    \/ seq < MaxLogs /\ AutoscaleEval /\ UNCHANGED aux
    \/ pendingAI < MaxPending /\ \E r \in GateDraws : NarrationTick(r) /\ UNCHANGED aux
    \/ seq < MaxLogs /\ \E o \in ServiceOutcomes : NarrationResolve(o) /\ UNCHANGED aux
    \/ seq < MaxLogs /\ stressTimeouts < MaxStress /\ StressTest /\ UNCHANGED aux
    \/ seq < MaxLogs /\ StressRelease /\ UNCHANGED aux
    \/ \E v \in SliderValues : SetArtificialLoad(v) /\ UNCHANGED aux
    \/ ToggleAutoScale /\ UNCHANGED aux
    \/ seq < MaxLogs /\ Diagnostics /\ UNCHANGED aux
    \/ Unmount /\ UNCHANGED aux

Spec == Init /\ [][Next]_vars

\* ------------------------------------------------ the policy over all node counts
\* The middle draw (noise 0) and two slider positions.  Position 0 gives
\* cpuLoad = 10 + nodeCount/2: the low band below 60 nodes and exactly 40 at 60.
\* Position 60 gives 70 + nodeCount/2: exactly 85 at 30 nodes, the high band above.
PolicyDraws == {500}
PolicySliderValues == {0, 60}

NextPolicy ==
    \/ clock < MaxPolicyTicks /\ \E r1 \in PolicyDraws : MetricsTick(r1, 500, 0) /\ UNCHANGED aux
    \/ seq < MaxPolicyLogs /\ AutoscaleEval /\ UNCHANGED aux
    \/ \E v \in PolicySliderValues : SetArtificialLoad(v) /\ UNCHANGED aux
    \/ ToggleAutoScale /\ UNCHANGED aux

SpecPolicy == Init /\ [][NextPolicy]_vars

\* -------------------------------------------------- the buffers past capacity
NextBuffers ==
    \/ clock < MaxBufferTicks /\ MetricsTick(500, 500, 0) /\ UNCHANGED aux
    \/ seq < MaxBufferLogs /\ Diagnostics /\ UNCHANGED aux

SpecBuffers == Init /\ [][NextBuffers]_vars

\* ------------------------------------------- the narrator over all responses
\* the characters of a response text: two kinds of whitespace and a letter
NarratorChars == {" ", "\n", "a"}

NarratorTexts == UNION {[1..k -> NarratorChars] : k \in 0..MaxTextLen}

NarratorOutcomes ==
    { [kind |-> "throw", chars |-> <<>>], [kind |-> "undefined", chars |-> <<>>] }
    \cup { [kind |-> "text", chars |-> cs] : cs \in NarratorTexts }

NextNarrator ==
    \/ pendingAI < MaxNarratorPending /\ \E r \in GateDraws : NarrationTick(r) /\ UNCHANGED aux
    \/ seq < MaxNarratorLogs /\ \E o \in NarratorOutcomes : NarrationResolve(o) /\ UNCHANGED aux

SpecNarrator == Init /\ [][NextNarrator]_vars

\* ------------------------------------- the simulator over its whole input range
\* The setMetrics updater is a function of the previous sample, nodeCount,
\* artificialLoad and three draws.  The previous memoryUsage is drawn at its
\* floor, at its initial value and at its ceiling; nodeCount over its whole range;
\* artificialLoad at the ends and the middle of the slider.
PrevMemoryUsages == {10 * SCALE, 30 * SCALE, 100 * SCALE}
MetricsNodeCounts == MIN_NODES..MAX_NODES
MetricsLoads == {0, 40, LOAD_MAX}
\* the least, the middle and the greatest draw
MetricsDraws == {0, 500, 999}

InitMetrics ==
    /\ \E m \in PrevMemoryUsages :
          /\ metrics = [cpuLoad |-> 20 * SCALE, memoryUsage |-> m,
                        networkLatency |-> 45 * SCALE, temperature |-> 40 * SCALE]
          /\ metricsRef = metrics
    /\ \E n \in MetricsNodeCounts :
          /\ networkConfig = [nodeCount |-> n, complexity |-> "MEDIUM",
                              status |-> "OPTIMAL"]
          /\ configRef = networkConfig
    /\ artificialLoad \in MetricsLoads
    /\ logs = <<>>
    /\ history = <<>>
    /\ autoScale = TRUE
    /\ mounted = TRUE
    /\ timers = {"metrics", "scale", "ai"}
    /\ stressTimeouts = 0
    /\ pendingAI = 0
    /\ seq = 0
    /\ clock = 0
    /\ lastCallback = "mount"
    /\ due = [metrics |-> TICK_RATE, scale |-> SCALE_RATE, ai |-> AI_RATE]
    /\ pulseStart = NoPulse
    /\ trend = NoTrend

NextMetrics ==
    clock < MaxMetricsTicks /\ \E r1 \in MetricsDraws, r2 \in MetricsDraws, r3 \in {0, 999} : MetricsTick(r1, r2, r3) /\ UNCHANGED aux

SpecMetrics == InitMetrics /\ [][NextMetrics]_vars

\* ------------------------------------------------- the writers of artificialLoad
\* slider positions: the ends, and one on each side of the stress amount
StressSliderValues == {0, 30, 50, 80}

NextStress ==
    \/ seq < MaxStressLogs /\ stressTimeouts < MaxStressPulses /\ StressTest /\ UNCHANGED aux
    \/ seq < MaxStressLogs /\ StressRelease /\ UNCHANGED aux
    \/ \E v \in StressSliderValues : SetArtificialLoad(v) /\ UNCHANGED aux

SpecStress == Init /\ [][NextStress]_vars

\* ---------------------------------------- the policy under a constant load
\* The sample the policy is about to read can have been produced under the
\* current nodeCount and artificialLoad: it lies between newCpu at the least
\* and at the greatest draw.
FreshSample ==
    /\ metricsRef.cpuLoad >= NewCpu(configRef.nodeCount, artificialLoad, 0)
    /\ metricsRef.cpuLoad <= NewCpu(configRef.nodeCount, artificialLoad, RANDOM_RES - 1)

\* trend after one more config change in direction dir
Continued(dir) == [dir |-> dir, run |-> trend.run + 1]

\* an autoscale evaluation; a read of a stale sample ends the interval
SteadyAutoscaleEval ==
    /\ AutoscaleEval
    /\ trend' = IF ~FreshSample THEN NoTrend
                ELSE IF networkConfig'.nodeCount > networkConfig.nodeCount
                THEN Continued("up")
                ELSE IF networkConfig'.nodeCount < networkConfig.nodeCount
                THEN Continued("down")
                ELSE trend
    /\ UNCHANGED <<due, pulseStart>>

\* a slider setting; a change of artificialLoad ends the interval
SteadySetArtificialLoad(v) ==
    /\ SetArtificialLoad(v)
    /\ trend' = IF v # artificialLoad THEN NoTrend ELSE trend
    /\ UNCHANGED <<due, pulseStart>>

\* the least, the middle and the greatest cpu noise
SteadyDraws == {0, 500, 999}
\* position 0: 25 +- 5 at 30 nodes (low band); position 60: 85 +- 5 (high band
\* at positive noise)
SteadySliderValues == {0, 60}

NextSteady ==
    \/ clock < MaxSteadyTicks /\ \E r1 \in SteadyDraws : MetricsTick(r1, 500, 0) /\ UNCHANGED aux
    \/ seq < MaxSteadyLogs /\ SteadyAutoscaleEval
    \/ \E v \in SteadySliderValues : SteadySetArtificialLoad(v)

SpecSteady == Init /\ [][NextSteady]_vars

\* ------------------------------------------------------ one stress pulse alone
\* handleStressTest, with the load at injection kept in pulseStart
PulseStressTest ==
    /\ StressTest
    /\ pulseStart' = artificialLoad
    /\ UNCHANGED <<due, trend>>

\* every starting load the slider can give
PulseLoads == 0..LOAD_MAX

\* One pulse at a time, and the slider rests while a pulse is pending: nothing
\* but the pulse writes artificialLoad between injection and compensation.
NextPulse ==
    \/ seq < MaxPulseLogs /\ stressTimeouts = 0 /\ PulseStressTest
    \/ seq < MaxPulseLogs /\ StressRelease /\ UNCHANGED aux
    \/ stressTimeouts = 0 /\ \E v \in PulseLoads : SetArtificialLoad(v) /\ UNCHANGED aux

SpecPulse == Init /\ [][NextPulse]_vars

\* ------------------------------------------------------ the timers in time
\* elapsed time advances in steps that divide every period
TimeStep == TICK_RATE \div 2

\* After a callback has changed state, React re-runs the effects whose
\* dependencies changed: the cleanup clears the interval and the effect arms a
\* new one, due a full period from now.  Dependencies: [networkConfig.nodeCount,
\* artificialLoad] (simulation), [autoScale] (auto-scaling), [logs] (narration;
\* every addLog makes a new array).
EffectsRerun(base) ==
    [metrics |-> IF \/ networkConfig'.nodeCount # networkConfig.nodeCount
                    \/ artificialLoad' # artificialLoad
                 THEN TICK_RATE ELSE base.metrics,
     scale |-> IF autoScale' # autoScale THEN SCALE_RATE ELSE base.scale,
     ai |-> IF logs' # logs THEN AI_RATE ELSE base.ai]

\* time passes while no armed interval is due
Advance ==
    /\ mounted
    /\ \A t \in timers : due[t] > 0
    /\ due' = [t \in DOMAIN due |-> IF t \in timers THEN due[t] - TimeStep ELSE due[t]]
    /\ UNCHANGED <<metrics, metricsRef, networkConfig, configRef, logs, history,
                   autoScale, artificialLoad, mounted, timers, stressTimeouts,
                   pendingAI, seq, clock, lastCallback, pulseStart, trend>>

\* the callback of interval t runs when t is due; setInterval keeps the period
Fired(t, period, Callback) ==
    /\ due[t] = 0
    /\ Callback
    /\ due' = EffectsRerun([due EXCEPT ![t] = period])
    /\ UNCHANGED <<pulseStart, trend>>

\* a UI handler or a promise continuation runs at any time
Handled(Handler) ==
    /\ Handler
    /\ due' = EffectsRerun(due)
    /\ UNCHANGED <<pulseStart, trend>>

\* slider positions: 25 (low band) and 65 (dead zone) at 30 nodes and noise 0
TimedSliderValues == {0, 40}

\* auto-scaling stays switched on
NextTimed ==
    \/ Advance
    \/ clock < MaxTimedTicks /\ Fired("metrics", TICK_RATE, MetricsTick(500, 500, 0))
    \/ seq < MaxTimedLogs /\ Fired("scale", SCALE_RATE, AutoscaleEval)
    \/ pendingAI < MaxTimedPending /\ \E r \in GateDraws : Fired("ai", AI_RATE, NarrationTick(r))
    \/ seq < MaxTimedLogs /\ Handled(NarrationResolve([kind |-> "undefined", chars |-> <<>>]))
    \/ \E v \in TimedSliderValues : Handled(SetArtificialLoad(v))
    \/ seq < MaxTimedLogs /\ Handled(Diagnostics)

SpecTimed == Init /\ [][NextTimed]_vars

\* ==================================================================== claims
\* the last entry of the log
LastLog == logs[Len(logs)]

\* the step is an autoscale evaluation
IsAutoscaleStep == lastCallback' = "autoscale"

\* the step leaves the cluster config alone and appends no log entry
ConfigAndLogUntouched == UNCHANGED <<networkConfig, configRef, logs, seq>>

\* C1: in every reachable state nodeCount is an integer with
\* MIN_NODES (10) <= nodeCount <= MAX_NODES (100), in the state and in the ref
\* the policy reads.
C1_NodeCountInRange ==
    /\ networkConfig.nodeCount \in 10..100
    /\ configRef.nodeCount \in 10..100

\* C1 witness: a scale-down from 11 nodes, whose unclamped target is 9, has
\* been clamped to 10.
C1_ClampedAtMin ==
    /\ lastCallback = "autoscale"
    /\ networkConfig.nodeCount = 10
    /\ Len(logs) >= 2
    /\ logs[Len(logs) - 1].message = "Critical load detected. Reducing active nodes to 11."
    /\ LastLog.message = "Critical load detected. Reducing active nodes to 10."

\* C2: an autoscale evaluation that reads 40 <= cpu <= 85 leaves the cluster
\* config unchanged and appends no log entry, whatever the config.
C2_DeadZone ==
    [][(IsAutoscaleStep /\ metricsRef.cpuLoad >= 40 * SCALE /\ metricsRef.cpuLoad <= 85 * SCALE)
        => ConfigAndLogUntouched]_vars

\* C2 witness: an evaluation has just read cpu = 85 exactly, the upper end of
\* the dead zone, and the log holds no entry for it.
C2_EvaluatedAtUpperThreshold ==
    /\ lastCallback = "autoscale"
    /\ metricsRef.cpuLoad = 85 * SCALE
    /\ networkConfig.nodeCount = 30
    /\ logs = <<>>

\* C3: an autoscale evaluation that reads cpu > 85 at n nodes computes
\* target = max(10, n - floor(n * 0.2)); when target # n the config becomes
\* nodeCount = target, complexity = LOW if target < 30 else MEDIUM,
\* status = STRAINED, and exactly one SYSTEM entry 'Critical load detected.
\* Reducing active nodes to {target}.' is appended; 50 nodes give 40 with
\* MEDIUM/STRAINED and 12 nodes give 10.
C3_ScaleDownRule ==
    [][(IsAutoscaleStep /\ metricsRef.cpuLoad > 85 * SCALE) =>
        LET n == networkConfig.nodeCount
            target == Max(10, n - (n \div 5))
            expected == [nodeCount |-> target,
                         complexity |-> IF target < 30 THEN "LOW" ELSE "MEDIUM",
                         status |-> "STRAINED"]
        IN /\ target # n =>
                /\ networkConfig' = expected
                /\ configRef' = expected
                /\ logs' = SliceLast(logs, 49) \o
                      <<[id |-> seq + 1, type |-> "SYSTEM",
                         message |-> "Critical load detected. Reducing active nodes to "
                                     \o ToString(target) \o "."]>>
           /\ n = 50 => networkConfig' = [nodeCount |-> 40, complexity |-> "MEDIUM", status |-> "STRAINED"]
           /\ n = 12 => networkConfig'.nodeCount = 10]_vars

\* C3 witness: the cluster was expanded to 50 nodes and the next change, an
\* evaluation under critical load, reduced it to 40 with MEDIUM/STRAINED.
C3_ScaledDownFrom50 ==
    /\ lastCallback = "autoscale"
    /\ metricsRef.cpuLoad > 85 * SCALE
    /\ networkConfig = [nodeCount |-> 40, complexity |-> "MEDIUM", status |-> "STRAINED"]
    /\ Len(logs) >= 2
    /\ logs[Len(logs) - 1].message = "Available headroom. Expanding neural architecture to 50 nodes."
    /\ LastLog = [id |-> seq, type |-> "SYSTEM",
                  message |-> "Critical load detected. Reducing active nodes to 40."]

\* C4: an autoscale evaluation that reads cpu < 40 at n nodes computes
\* target = min(100, n + 5); when target # n the config becomes
\* nodeCount = target, complexity = HIGH if target > 60 else MEDIUM,
\* status = OPTIMAL, and exactly one SYSTEM entry 'Available headroom.
\* Expanding neural architecture to {target} nodes.' is appended.
C4_ScaleUpRule ==
    [][(IsAutoscaleStep /\ metricsRef.cpuLoad < 40 * SCALE) =>
        LET n == networkConfig.nodeCount
            target == Min(100, n + 5)
            expected == [nodeCount |-> target,
                         complexity |-> IF target > 60 THEN "HIGH" ELSE "MEDIUM",
                         status |-> "OPTIMAL"]
        IN target # n =>
                /\ networkConfig' = expected
                /\ configRef' = expected
                /\ logs' = SliceLast(logs, 49) \o
                      <<[id |-> seq + 1, type |-> "SYSTEM",
                         message |-> "Available headroom. Expanding neural architecture to "
                                     \o ToString(target) \o " nodes."]>>]_vars

\* C4 witness: an evaluation under low load has expanded the cluster to
\* exactly 60 nodes, the last target that is still MEDIUM.
C4_ScaledUpTo60 ==
    /\ lastCallback = "autoscale"
    /\ metricsRef.cpuLoad < 40 * SCALE
    /\ networkConfig = [nodeCount |-> 60, complexity |-> "MEDIUM", status |-> "OPTIMAL"]
    /\ LastLog = [id |-> seq, type |-> "SYSTEM",
                  message |-> "Available headroom. Expanding neural architecture to 60 nodes."]

\* C5: an autoscale evaluation whose clamped target equals the current
\* nodeCount (cpu > 85 at 10 nodes, cpu < 40 at 100 nodes) leaves the cluster
\* config unchanged and appends no log entry; a SYSTEM entry is appended only
\* in a step that changes nodeCount.
C5_NoOpAtClamp ==
    /\ [][(/\ IsAutoscaleStep
           /\ \/ metricsRef.cpuLoad > 85 * SCALE /\ networkConfig.nodeCount = 10
              \/ metricsRef.cpuLoad < 40 * SCALE /\ networkConfig.nodeCount = 100)
          => ConfigAndLogUntouched]_vars
    /\ [][(seq' # seq /\ logs'[Len(logs')].type = "SYSTEM")
          => networkConfig'.nodeCount # networkConfig.nodeCount]_vars

\* C5 witness: the cluster is at 100 nodes, the sample the policy reads is
\* below 40, and an evaluation ran last: every further evaluation in this
\* state computes the target 100 and changes nothing.
C5_EvaluatedAtMax ==
    /\ lastCallback = "autoscale"
    /\ "scale" \in timers
    /\ metricsRef.cpuLoad < 40 * SCALE
    /\ networkConfig.nodeCount = 100
    /\ LastLog.message = "Available headroom. Expanding neural architecture to 100 nodes."

\* C6: the event log holds at most 50 entries and the history buffer at most
\* 30 samples, and each holds exactly the most recently appended items in
\* append order (the oldest evicted first); after 51 log appends the length
\* is 50 and the first entry present is the 2nd one appended.
C6_BoundedFifo ==
    /\ Len(logs) <= 50
    /\ Len(logs) = Min(seq, 50)
    /\ \A i \in 1..Len(logs) : logs[i].id = seq - Len(logs) + i
    /\ Len(history) <= 30
    /\ Len(history) = Min(clock, 30)
    /\ \A i \in 1..Len(history) : history[i].time = clock - Len(history) + i
    /\ seq = 51 => (Len(logs) = 50 /\ logs[1].id = 2)

\* C6 witness: 51 log entries and 31 samples have been appended, and each
\* buffer is full with the first item evicted.
C6_FirstEvictions ==
    /\ seq = 51 /\ Len(logs) = 50 /\ logs[1].id = 2
    /\ clock = 31 /\ Len(history) = 30 /\ history[1].time = 2

\* the outcomes in which the text-generation call throws or rejects
ThrowOutcomes == {o \in NarratorOutcomes \cup ServiceOutcomes : o.kind = "throw"}

\* the outcomes in which the service answers with an empty or whitespace-only text
BlankOutcomes ==
    {o \in NarratorOutcomes \cup ServiceOutcomes :
        o.kind = "text" /\ \A i \in 1..Len(o.chars) : o.chars[i] \in {" ", "\n", "\t"}}

\* the step appends exactly one entry, of the given type and message
AppendsExactly(type, message) ==
    logs' = SliceLast(logs, 49) \o <<[id |-> seq + 1, type |-> type, message |-> message]>>

\* C7: when the text-generation call throws or rejects, analyzeSystem
\* resolves (it does not throw) to 'Telemetry link unstable. Running local
\* heuristics.', and the caller appends exactly one entry for that narration,
\* of type AI with that text, and no entry of type ERROR.
C7_FailureAbsorbed ==
    [][\A o \in ThrowOutcomes : (mounted /\ NarrationResolve(o)) =>
          /\ AppendsExactly("AI", "Telemetry link unstable. Running local heuristics.")
          /\ \A i \in 1..Len(logs') : logs'[i].type # "ERROR"]_vars

\* C7 witness: a narration has just completed and its entry is the fallback text.
C7_FallbackLogged ==
    /\ lastCallback = "narrationResolve"
    /\ Len(logs) > 0
    /\ LastLog = [id |-> seq, type |-> "AI",
                  message |-> "Telemetry link unstable. Running local heuristics."]

\* C8 as stated: an empty or whitespace-only response yields the same fallback
\* string as a thrown error.
C8_BlankResponseGivesFallback ==
    [][\A o \in BlankOutcomes : (mounted /\ NarrationResolve(o)) =>
          AppendsExactly("AI", "Telemetry link unstable. Running local heuristics.")]_vars

\* C8 amended: an empty or whitespace-only response yields the fixed default
\* string 'System nominal. Awaiting input.', not the fallback of a thrown error;
\* the caller appends it as one AI entry.
C8_BlankResponseGivesDefault ==
    [][\A o \in BlankOutcomes : (mounted /\ NarrationResolve(o)) =>
          AppendsExactly("AI", "System nominal. Awaiting input.")]_vars

\* C8 witness: a narration has just completed and its entry is the default text.
C8_DefaultLogged ==
    /\ lastCallback = "narrationResolve"
    /\ Len(logs) > 0
    /\ LastLog = [id |-> seq, type |-> "AI", message |-> "System nominal. Awaiting input."]

\* C9: once the component is unmounted every timer is cancelled, the pending
\* stress-compensation timeouts included, and no timer callback runs.
C9_NoTimerAfterShutdown ==
    ~mounted =>
        /\ timers = {}
        /\ lastCallback \notin {"metricsTick", "autoscale", "narrationTick", "stressRelease"}

\* C10: while narration requests are pending, metrics ticks and autoscale
\* evaluations remain enabled; a narration that resolves appends one AI entry
\* to the event log and changes nothing else of the shared state.
C10_NarrationDoesNotBlock ==
    /\ []((pendingAI > 0 /\ mounted) =>
            /\ \A r \in RandomDraws : ENABLED MetricsTick(r, 500, 0)
            /\ autoScale => ENABLED AutoscaleEval)
    /\ [][(mounted /\ lastCallback' = "narrationResolve") =>
            /\ UNCHANGED <<metrics, metricsRef, networkConfig, configRef, history,
                           autoScale, artificialLoad, timers, stressTimeouts>>
            /\ Len(logs') > 0
            /\ logs'[Len(logs')].type = "AI"
            /\ AppendsExactly("AI", logs'[Len(logs')].message)]_vars

\* C10 witness: with a narration request pending, a metrics tick ran and put
\* its sample into the history, and the request is still pending.
C10_TickWhilePending ==
    /\ pendingAI > 0
    /\ lastCallback = "metricsTick"
    /\ Len(history) > 0
    /\ history[Len(history)].cpu = metrics.cpuLoad
\* C11: every metrics tick leaves 5 <= cpuLoad <= 100, 10 <= memoryUsage <= 100,
\* networkLatency >= 0 and temperature >= 0, and cpuLoad is
\* clamp(10 + nodeCount/2 + artificialLoad + noise, 5, 100) for a noise in [-5, 5]
\* (values in hundredths; the clamp is monotone, so cpuLoad lies between the
\* clamped values at noise -5 and at noise +5).
C11_MetricsInBounds ==
    [][lastCallback' = "metricsTick" =>
        LET raw == 1000 + 50 * networkConfig.nodeCount + 100 * artificialLoad
            lo == IF raw - 500 < 500 THEN 500
                  ELSE IF raw - 500 > 10000 THEN 10000 ELSE raw - 500
            hi == IF raw + 500 < 500 THEN 500
                  ELSE IF raw + 500 > 10000 THEN 10000 ELSE raw + 500
        IN /\ networkConfig.nodeCount \in 10..100
           /\ artificialLoad \in 0..80
           /\ metrics'.cpuLoad >= 500 /\ metrics'.cpuLoad <= 10000
           /\ metrics'.memoryUsage >= 1000 /\ metrics'.memoryUsage <= 10000
           /\ metrics'.networkLatency >= 0
           /\ metrics'.temperature >= 0
           /\ metrics'.cpuLoad >= lo /\ metrics'.cpuLoad <= hi
           /\ metricsRef' = metrics']_vars

\* a tick at 100 nodes and full load at which both ceilings bind
C11_BothCeilingsBind ==
    /\ lastCallback = "metricsTick"
    /\ networkConfig.nodeCount = 100
    /\ artificialLoad = 80
    /\ metrics.cpuLoad = 10000
    /\ metrics.memoryUsage = 10000

\* C12: artificialLoad is within [0, 80] in every reachable state, under any
\* sequence of slider settings, stress injections and releases (overlapping
\* pulses included); an injection sets it to min(load + 40, 80) and a release
\* to max(0, load - 40).
C12_LoadInRange ==
    /\ [](artificialLoad >= 0 /\ artificialLoad <= 80)
    /\ [][(lastCallback' = "stressTest" =>
             artificialLoad' = (IF artificialLoad + 40 < 80
                                THEN artificialLoad + 40 ELSE 80))
          /\
          ((lastCallback' = "stressRelease" /\ mounted) =>
             artificialLoad' = (IF artificialLoad - 40 > 0
                                THEN artificialLoad - 40 ELSE 0))]_vars

\* a second pulse injected while the first is pending, at the ceiling
C12_OverlappingPulses ==
    /\ lastCallback = "stressTest"
    /\ stressTimeouts = 2
    /\ artificialLoad = 80

\* C13: while artificialLoad is unchanged and every sample the policy reads was
\* produced under that load and the current nodeCount, two consecutive config
\* changes never go in opposite directions (trend is reset by a change of load
\* and by a read of a stale sample, so both trends belong to one such interval).
C13_NoThrash ==
    [][(trend.dir # "none" /\ trend'.dir # "none") => trend'.dir = trend.dir]_vars

\* two scale-downs in a row on fresh samples under one load
C13_TwoScaleDowns ==
    /\ lastCallback = "autoscale"
    /\ trend = [dir |-> "down", run |-> 2]
    /\ artificialLoad = 60
    /\ networkConfig.nodeCount = 20

\* C14: a single stress pulse undoes itself: right after the compensation of a
\* pulse that alone wrote artificialLoad, the load is the load at injection, and
\* the last two log entries are the WARNING of the injection and the INFO of
\* the release, in that order.
C14_PulseUndoesItself ==
    lastCallback = "stressRelease" =>
        /\ artificialLoad = pulseStart
        /\ Len(logs) >= 2
        /\ logs[Len(logs) - 1].type = "WARNING"
        /\ logs[Len(logs) - 1].message = "Injecting artificial stress test load..."
        /\ LastLog.type = "INFO"
        /\ LastLog.message = "Stress test complete. Releasing load."

\* C15: the periodic tasks keep their schedules: a step that appends a log
\* entry, changes nodeCount or changes artificialLoad leaves the time until the
\* next metrics tick and the time until the next narration tick as they were.
C15_SchedulesKept ==
    [][(\/ logs' # logs
        \/ networkConfig'.nodeCount # networkConfig.nodeCount
        \/ artificialLoad' # artificialLoad)
       => (due'.metrics = due.metrics /\ due'.ai = due.ai)]_vars

====
